---- MODULE Spec2Model ----
(***************************************************************************)
(* Model of the Celestia data-availability client                          *)
(* (core/node/da_clients/src/celestia/client.rs).                          *)
(*                                                                         *)
(* The client is stateless apart from its immutable configuration and two  *)
(* shared channels.  Every public operation is an async fn; the model      *)
(* gives each call a slot in `calls` and splits it at its await points.    *)
(* The DA network (chain, height) and the inclusion-proof service          *)
(* (registered) are the remote parties; their answers are inputs.          *)
(***************************************************************************)
EXTENDS Integers, Sequences, FiniteSets, TLC

\* ------------------------------------------------------------------ bounds
MaxCalls == 2
MaxHeight == 2
MaxWireStatus == 3
NumProofs == 1

Calls == 1..MaxCalls

\* ------------------------------------------------------------- hex strings
\* A string is a sequence of one-character strings.
HexDigits == <<"0","1","2","3","4","5","6","7","8","9","a","b","c","d","e","f">>
UpperHexDigits == <<"0","1","2","3","4","5","6","7","8","9","A","B","C","D","E","F">>

IsHexChar(ch) == \E i \in 1..16 : HexDigits[i] = ch \/ UpperHexDigits[i] = ch

HexVal(ch) == (CHOOSE i \in 1..16 : HexDigits[i] = ch \/ UpperHexDigits[i] = ch) - 1

\* hex_encode with the two digits of a byte in the wrong order.
hex_encode_low_first(bytes) ==
    [i \in 1..(2 * Len(bytes)) |->
        IF i % 2 = 1 THEN HexDigits[(bytes[(i + 1) \div 2] % 16) + 1]
                     ELSE HexDigits[(bytes[i \div 2] \div 16) + 1]]

\* hex::encode: two lower-case digits per byte, high nibble first.
hex_encode(bytes) ==
    [i \in 1..(2 * Len(bytes)) |->
        IF i % 2 = 1 THEN HexDigits[(bytes[(i + 1) \div 2] \div 16) + 1]
                     ELSE HexDigits[(bytes[i \div 2] % 16) + 1]]

\* hex::decode: fails on odd length or on a character that is no hex digit.
hex_decode_ok(str) ==
    /\ Len(str) % 2 = 0
    /\ \A i \in 1..Len(str) : IsHexChar(str[i])

hex_decode(str) ==
    [i \in 1..(Len(str) \div 2) |-> 16 * HexVal(str[2 * i - 1]) + HexVal(str[2 * i])]

\* ---------------------------------------------------------------- namespace
NS_SIZE == 29
NS_ID_V0_SIZE == 10

\* Namespace::new_v0 accepts at most NS_ID_V0_SIZE id bytes.
new_v0_ok(id) == Len(id) <= NS_ID_V0_SIZE

\* Namespace::new_v0: version byte 0, then the id left-padded with zeros.
new_v0(id) ==
    [i \in 1..NS_SIZE |-> IF i > NS_SIZE - Len(id) THEN id[i - (NS_SIZE - Len(id))] ELSE 0]

\* ------------------------------------------------------------------ payloads
blob_size_limit == 1973786

\* A payload is `len` copies of the byte `fill`: one at the advertised
\* limit, one above it (dispatch_blob does not look at the limit).
Payloads ==
    { [fill |-> 0, len |-> blob_size_limit],
      [fill |-> 1, len |-> blob_size_limit + 1] }

NoPayload == [fill |-> 0, len |-> 0]

\* blob.commitment: a deterministic, collision-free fingerprint of the bytes.
Commitment(data) ==
    <<data.fill, data.len % 256, (data.len \div 256) % 256, data.len \div 65536>>

COMMITMENT_SIZE == Len(Commitment(NoPayload))

\* -------------------------------------------------------------------- BlobId
HEIGHT_SIZE == 8

NoBlob == [commitment |-> <<>>, namespace |-> <<>>, height |-> 0]

BlobId(commitment, namespace, height) ==
    [commitment |-> commitment, namespace |-> namespace, height |-> height]

RECURSIVE le_bytes(_, _)
le_bytes(h, n) == IF n = 0 THEN <<>> ELSE <<h % 256>> \o le_bytes(h \div 256, n - 1)

\* u64 as eight little-endian bytes.
u64_le(h) == le_bytes(h, HEIGHT_SIZE)

RECURSIVE le_u64(_)
le_u64(bytes) ==
    IF bytes = <<>> THEN 0 ELSE Head(bytes) + 256 * le_u64(Tail(bytes))

\* bincode_serialize with the namespace written before the commitment.
bincode_serialize_namespace_first(blob_id) ==
    blob_id.namespace \o blob_id.commitment \o u64_le(blob_id.height)

\* bincode::serialize(&blob_id): the fields in declaration order.
bincode_serialize(blob_id) ==
    blob_id.commitment \o blob_id.namespace \o u64_le(blob_id.height)

BLOB_ID_SIZE == COMMITMENT_SIZE + NS_SIZE + HEIGHT_SIZE

\* bincode::deserialize::<BlobId>: fails when the input ends early.
bincode_deserialize_ok(bytes) == Len(bytes) >= BLOB_ID_SIZE

bincode_deserialize(bytes) ==
    BlobId(SubSeq(bytes, 1, COMMITMENT_SIZE),
           SubSeq(bytes, COMMITMENT_SIZE + 1, COMMITMENT_SIZE + NS_SIZE),
           le_u64(SubSeq(bytes, COMMITMENT_SIZE + NS_SIZE + 1, BLOB_ID_SIZE)))

\* ------------------------------------------------------------------- results
Pending ==
    [kind |-> "pending", blob_id |-> <<>>, some |-> FALSE, data |-> <<>>,
     error |-> "", is_retriable |-> FALSE]

\* Ok(DispatchResponse { blob_id })
DispatchResponse(blob_id) ==
    [kind |-> "ok", blob_id |-> blob_id, some |-> FALSE, data |-> <<>>,
     error |-> "", is_retriable |-> FALSE]

\* Ok(None)
OkNone ==
    [kind |-> "ok", blob_id |-> <<>>, some |-> FALSE, data |-> <<>>,
     error |-> "", is_retriable |-> FALSE]

\* Ok(Some(InclusionData { data }))
InclusionData(data) ==
    [kind |-> "ok", blob_id |-> <<>>, some |-> TRUE, data |-> data,
     error |-> "", is_retriable |-> FALSE]

DAError(error, is_retriable) ==
    [kind |-> "err", blob_id |-> <<>>, some |-> FALSE, data |-> <<>>,
     error |-> error, is_retriable |-> is_retriable]

to_non_retriable_da_error(error) == DAError(error, FALSE)

to_retriable_da_error(error) == DAError(error, TRUE)

\* ------------------------------------------------- inclusion-service wire
\* get_keccak_inclusion_response::Status, indexed by wire code + 1.
InclusionResponseStatus == <<"Waiting", "Complete", "Failed">>

\* The status field travels as an i32; the client knows only some codes.
WireStatus == 0..MaxWireStatus

\* TryFrom<i32> for Status
status_try_from_ok(code) == code + 1 \in DOMAIN InclusionResponseStatus

status_try_from(code) == InclusionResponseStatus[code + 1]

Proofs == {<<>>} \cup {<<p>> : p \in 1..NumProofs}

\* Option<get_keccak_inclusion_response::ResponseValue>
NoValue == [kind |-> "none", data |-> <<>>]

Proof(p) == [kind |-> "proof", data |-> p]

OtherValue == [kind |-> "other", data |-> <<>>]

ResponseValues == {NoValue, OtherValue} \cup {Proof(p) : p \in Proofs}

\* GetKeccakInclusionResponse
Responses == [status : WireStatus, response_value : ResponseValues]

NoResponse == [status |-> 0 - 1, response_value |-> NoValue]

\* interpret_response with Complete without a proof taken for "not ready".
interpret_response_lenient(response) ==
    IF ~status_try_from_ok(response.status)
    THEN to_non_retriable_da_error("unknown status")
    ELSE IF status_try_from(response.status) = "Complete"
            /\ response.response_value.kind = "proof"
         THEN InclusionData(response.response_value.data)
         ELSE OkNone

\* interpret_response with every code but Complete taken for "not ready".
interpret_response_any_other(response) ==
    IF status_try_from_ok(response.status)
       /\ status_try_from(response.status) = "Complete"
    THEN IF response.response_value.kind = "proof"
         THEN InclusionData(response.response_value.data)
         ELSE DAError("Complete status should be accompanied by a Proof, eq-service is broken", FALSE)
    ELSE OkNone

\* interpret_response that loses the proof bytes.
interpret_response_no_data(response) ==
    IF ~status_try_from_ok(response.status)
    THEN to_non_retriable_da_error("unknown status")
    ELSE IF status_try_from(response.status) = "Complete"
         THEN IF response.response_value.kind = "proof"
              THEN InclusionData(<<>>)
              ELSE DAError("Complete status should be accompanied by a Proof, eq-service is broken", FALSE)
         ELSE OkNone

\* get_inclusion_data, lines 113-130: what the call returns for a response.
interpret_response(response) ==
    IF ~status_try_from_ok(response.status)
    THEN to_non_retriable_da_error("unknown status")
    ELSE IF status_try_from(response.status) = "Complete"
         THEN IF response.response_value.kind = "proof"
              THEN InclusionData(response.response_value.data)
              ELSE DAError("Complete status should be accompanied by a Proof, eq-service is broken", FALSE)
         ELSE OkNone

\* --------------------------------------------------------------- the inputs
\* config.namespace: a one-byte id, a string that is no hex, an id too long.
GoodNamespace == <<"0", "a">>

ConfigNamespaces ==
    { GoodNamespace,
      <<"z", "z">>,
      [i \in 1..(2 * (NS_ID_V0_SIZE + 1)) |-> "1"] }

TestNamespace == new_v0(hex_decode(GoodNamespace))

WellFormedBlobIds ==
    { BlobId(Commitment(d), TestNamespace, h) : d \in Payloads, h \in 1..MaxHeight }

WellFormedIds == { hex_encode(bincode_serialize(b)) : b \in WellFormedBlobIds }

ASampleId ==
    hex_encode(bincode_serialize(
        BlobId(Commitment([fill |-> 0, len |-> blob_size_limit]), TestNamespace, 1)))

\* not hex; odd length; hex of too few bytes; the empty string
MalformedIds ==
    { <<"z", "z">>,
      SubSeq(ASampleId, 1, Len(ASampleId) - 1),
      SubSeq(ASampleId, 1, Len(ASampleId) - 2),
      <<>> }

IdInputs == WellFormedIds \cup MalformedIds

\* One response of each class: a known code that is not Complete, Complete,
\* an unknown code; each without a value and with a proof.
SampleResponses ==
    { r \in Responses : /\ r.status \in {0, 1, MaxWireStatus}
                        /\ r.response_value \in {NoValue, Proof(<<1>>)} }

\* -------------------------------------------------------------------- state
VARIABLES client, via, bc, config, calls, chain, height, registered, lastDone

vars == <<client, via, bc, config, calls, chain, height, registered, lastDone>>

\* CelestiaConfig: the namespace is the only field the calls read.
CelestiaConfig(namespace) ==
    [api_node_url |-> "http://celestia:9090",
     integration_service_url |-> "http://eq-service:50051",
     namespace |-> namespace]

\* CelestiaSecrets.private_key
PrivateKeys == {"key-a", "key-b"}

\* The two channels `new` opens, by the order in which it opens them.
NetworkChannel == [channel |-> "celestia_grpc_channel"]

IntegrationChannel == [channel |-> "integration_grpc_channel"]

\* Self { config, celestia_client, integration_client }: the two clients are
\* behind an Arc, so a handle holds what it points to, not a copy of it.
CelestiaClient(cfg, private_key) ==
    [config |-> cfg,
     celestia_client |-> [channel |-> NetworkChannel.channel, private_key |-> private_key],
     integration_client |-> IntegrationChannel]

\* No compress_bytecodes run.
NoBytecodes == [pc |-> "none", bytecodes |-> <<>>, known |-> {}, fails |-> {},
                asked |-> <<>>, out |-> <<>>]

IdleCall ==
    [op |-> "none", pc |-> "idle", data |-> NoPayload, arg |-> <<>>, blob |-> NoBlob,
     response |-> NoResponse, result |-> Pending,
     nprepare |-> 0, nsubmit |-> 0, nrpc |-> 0, prev |-> 0, floor |-> 0]

\* The state in which `new` has returned Ok(client).
Constructed(private_key) ==
    [pc |-> "ready", private_key |-> private_key, opened |-> {NetworkChannel, IntegrationChannel},
     handles |-> <<CelestiaClient(config, private_key)>>, log |-> {}]

Init ==
    /\ config \in {CelestiaConfig(ns) : ns \in ConfigNamespaces}
    /\ client = Constructed("key-a")
    /\ via = [c \in Calls |-> 1]
    /\ bc = NoBytecodes
    /\ calls = [c \in Calls |-> IdleCall]
    /\ chain = <<>>
    /\ height = 1
    /\ registered = {}
    /\ lastDone = 0

\* Slot c holds the c-th call made on the client (or its clones).
CanStart(c) ==
    /\ client.pc = "ready"
    /\ via[c] \in DOMAIN client.handles
    /\ calls[c].pc = "idle"
    /\ \A b \in Calls : b < c => calls[b].pc # "idle"

\* The call starts: it remembers which call was the last to return before it.
Begin(c, op) ==
    [calls[c] EXCEPT !.op = op, !.prev = lastDone]

\* The call returns `result` to its caller.
Return(c, rec, result) ==
    /\ calls' = [calls EXCEPT ![c] = [rec EXCEPT !.pc = "done", !.result = result]]
    /\ lastDone' = c

\* IntegrationClient::get_keccak_inclusion as the service sees it: the one
\* RPC both operations use; the service starts a job for an id it is given.
get_keccak_inclusion(blob_id) == registered \cup {blob_id}

\* ------------------------------------------------------------ dispatch_blob
\* lines 72-81: namespace, blob, commitment, then prepare is called.
DispatchStart(c, data, blob_ok) ==
    /\ CanStart(c)
    /\ LET rec == [Begin(c, "dispatch") EXCEPT !.data = data]
       IN IF ~hex_decode_ok(config.namespace)
          THEN Return(c, rec, to_non_retriable_da_error("namespace hex"))
          ELSE IF ~new_v0_ok(hex_decode(config.namespace))
          THEN Return(c, rec, to_non_retriable_da_error("namespace"))
          ELSE IF ~blob_ok
          THEN Return(c, rec, to_non_retriable_da_error("blob"))
          ELSE /\ calls' = [calls EXCEPT ![c] =
                    [rec EXCEPT !.pc = "prepare", !.nprepare = @ + 1,
                                !.blob = BlobId(Commitment(data),
                                                new_v0(hex_decode(config.namespace)), 0)]]
               /\ lastDone' = lastDone
    /\ UNCHANGED <<client, via, bc, config, chain, height, registered>>

\* The highest block of which a submit has told its caller: a block the
\* network has finished, so a submission made later lands above it.
ConfirmedHeight ==
    LET hs == {0} \cup { chain[i].height : i \in { j \in DOMAIN chain : calls[chain[j].by].nrpc > 0 } }
    IN CHOOSE h \in hs : \A k \in hs : k <= h

\* The network can put the submission of call c into its current block.
CanInclude(c) == height > calls[c].floor

\* PrepareReturn with the submission left out: registration follows prepare.
PrepareReturn_no_submit(c, ok) ==
    /\ calls[c].pc = "prepare"
    /\ IF ok
       THEN /\ calls' = [calls EXCEPT ![c].pc = "register", ![c].nrpc = @ + 1]
            /\ lastDone' = lastDone
       ELSE Return(c, calls[c], to_non_retriable_da_error("prepare"))
    /\ UNCHANGED <<client, via, bc, config, chain, height, registered>>

\* lines 79-88: prepare answers; on success submit is called.
PrepareReturn(c, ok) ==
    /\ calls[c].pc = "prepare"
    /\ IF ok
       THEN /\ calls' = [calls EXCEPT ![c].pc = "submit", ![c].nsubmit = @ + 1,
                                      ![c].floor = ConfirmedHeight]
            /\ lastDone' = lastDone
       ELSE Return(c, calls[c], to_non_retriable_da_error("prepare"))
    /\ UNCHANGED <<client, via, bc, config, chain, height, registered>>

\* SubmitReturn with content already on the network not submitted again.
SubmitReturn_dedup(c) ==
    /\ calls[c].pc = "submit"
    /\ CanInclude(c)
    /\ LET same == { i \in DOMAIN chain : chain[i].commitment = calls[c].blob.commitment }
       IN IF same = {}
          THEN /\ chain' = Append(chain, [commitment |-> calls[c].blob.commitment,
                                          namespace |-> calls[c].blob.namespace,
                                          height |-> height, by |-> c])
               /\ calls' = [calls EXCEPT ![c].pc = "register", ![c].blob.height = height,
                                         ![c].nrpc = @ + 1, ![c].floor = 0]
          ELSE /\ chain' = chain
               /\ calls' = [calls EXCEPT ![c].pc = "register",
                                         ![c].blob.height = chain[CHOOSE i \in same : TRUE].height,
                                         ![c].nrpc = @ + 1, ![c].floor = 0]
    /\ UNCHANGED <<client, via, bc, config, height, registered, lastDone>>

\* lines 86-95: the network accepts the blob and answers with its height;
\* the BlobId is assembled and get_keccak_inclusion is called.
SubmitReturn(c) ==
    /\ calls[c].pc = "submit"
    /\ CanInclude(c)
    /\ chain' = Append(chain, [commitment |-> calls[c].blob.commitment,
                               namespace |-> calls[c].blob.namespace,
                               height |-> height, by |-> c])
    /\ calls' = [calls EXCEPT ![c].pc = "register", ![c].blob.height = height,
                              ![c].nrpc = @ + 1, ![c].floor = 0]
    /\ UNCHANGED <<client, via, bc, config, height, registered, lastDone>>

\* SubmitFail with the transport failure classified as retriable.
SubmitFail_retriable(c, accepted) ==
    /\ calls[c].pc = "submit"
    /\ accepted => CanInclude(c)
    /\ chain' = IF accepted
                THEN Append(chain, [commitment |-> calls[c].blob.commitment,
                                    namespace |-> calls[c].blob.namespace,
                                    height |-> height, by |-> c])
                ELSE chain
    /\ Return(c, [calls[c] EXCEPT !.floor = 0], to_retriable_da_error("submit"))
    /\ UNCHANGED <<client, via, bc, config, height, registered>>

\* lines 86-90: submit fails; the network may or may not have taken the blob.
SubmitFail(c, accepted) ==
    /\ calls[c].pc = "submit"
    /\ accepted => CanInclude(c)
    /\ chain' = IF accepted
                THEN Append(chain, [commitment |-> calls[c].blob.commitment,
                                    namespace |-> calls[c].blob.namespace,
                                    height |-> height, by |-> c])
                ELSE chain
    /\ Return(c, [calls[c] EXCEPT !.floor = 0], to_non_retriable_da_error("submit"))
    /\ UNCHANGED <<client, via, bc, config, height, registered>>

\* RegisterReturn that returns the id as it was before the height was known.
RegisterReturn_without_height(c) ==
    /\ calls[c].pc = "register"
    /\ registered' = get_keccak_inclusion(calls[c].blob)
    /\ Return(c, calls[c],
              DispatchResponse(hex_encode(bincode_serialize([calls[c].blob EXCEPT !.height = 0]))))
    /\ UNCHANGED <<client, via, bc, config, chain, height>>

\* lines 95-102: the service answers the registration; the id is returned.
RegisterReturn(c) ==
    /\ calls[c].pc = "register"
    /\ registered' = get_keccak_inclusion(calls[c].blob)
    /\ Return(c, calls[c], DispatchResponse(hex_encode(bincode_serialize(calls[c].blob))))
    /\ UNCHANGED <<client, via, bc, config, chain, height>>

\* lines 95-98: the registration RPC fails (the request may have arrived).
\* A registration that is attempted again after its first failure.
RegisterFail_retry(c, arrived) ==
    /\ calls[c].pc = "register"
    /\ registered' = IF arrived THEN get_keccak_inclusion(calls[c].blob) ELSE registered
    /\ IF calls[c].nrpc < 2
       THEN /\ calls' = [calls EXCEPT ![c].nrpc = @ + 1]
            /\ lastDone' = lastDone
       ELSE Return(c, calls[c], DAError("tonic status", TRUE))
    /\ UNCHANGED <<client, via, bc, config, chain, height>>

RegisterFail(c, arrived) ==
    /\ calls[c].pc = "register"
    /\ registered' = IF arrived THEN get_keccak_inclusion(calls[c].blob) ELSE registered
    /\ Return(c, calls[c], DAError("tonic status", TRUE))
    /\ UNCHANGED <<client, via, bc, config, chain, height>>

\* ------------------------------------------------------- get_inclusion_data
\* GetStart that calls the service before it has decoded the id.
GetStart_query_first(c, blob_id) ==
    /\ CanStart(c)
    /\ LET rec == [Begin(c, "get") EXCEPT !.arg = blob_id, !.nrpc = @ + 1]
       IN IF ~hex_decode_ok(blob_id)
          THEN Return(c, rec, to_non_retriable_da_error("hex"))
          ELSE IF ~bincode_deserialize_ok(hex_decode(blob_id))
          THEN Return(c, rec, to_non_retriable_da_error("bincode"))
          ELSE /\ calls' = [calls EXCEPT ![c] =
                    [rec EXCEPT !.pc = "query",
                                !.blob = bincode_deserialize(hex_decode(blob_id))]]
               /\ lastDone' = lastDone
    /\ UNCHANGED <<client, via, bc, config, chain, height, registered>>

\* lines 107-110: decode the id; on success get_keccak_inclusion is called.
GetStart(c, blob_id) ==
    /\ CanStart(c)
    /\ LET rec == [Begin(c, "get") EXCEPT !.arg = blob_id]
       IN IF ~hex_decode_ok(blob_id)
          THEN Return(c, rec, to_non_retriable_da_error("hex"))
          ELSE IF ~bincode_deserialize_ok(hex_decode(blob_id))
          THEN Return(c, rec, to_non_retriable_da_error("bincode"))
          ELSE /\ calls' = [calls EXCEPT ![c] =
                    [rec EXCEPT !.pc = "query", !.nrpc = @ + 1,
                                !.blob = bincode_deserialize(hex_decode(blob_id))]]
               /\ lastDone' = lastDone
    /\ UNCHANGED <<client, via, bc, config, chain, height, registered>>

\* QueryReturn that asked the service about an id without its height.
QueryReturn_wrong_id(c, response) ==
    /\ calls[c].pc = "query"
    /\ registered' = get_keccak_inclusion([calls[c].blob EXCEPT !.height = 0])
    /\ Return(c, [calls[c] EXCEPT !.response = response], interpret_response(response))
    /\ UNCHANGED <<client, via, bc, config, chain, height>>

\* lines 110-130: the service answers the query.
QueryReturn(c, response) ==
    /\ calls[c].pc = "query"
    /\ registered' = get_keccak_inclusion(calls[c].blob)
    /\ Return(c, [calls[c] EXCEPT !.response = response], interpret_response(response))
    /\ UNCHANGED <<client, via, bc, config, chain, height>>

\* QueryFail with the transport failure classified as not retriable.
QueryFail_non_retriable(c, arrived) ==
    /\ calls[c].pc = "query"
    /\ registered' = IF arrived THEN get_keccak_inclusion(calls[c].blob) ELSE registered
    /\ Return(c, calls[c], to_non_retriable_da_error("tonic status"))
    /\ UNCHANGED <<client, via, bc, config, chain, height>>

\* lines 110-112: the query RPC fails (the request may have arrived).
QueryFail(c, arrived) ==
    /\ calls[c].pc = "query"
    /\ registered' = IF arrived THEN get_keccak_inclusion(calls[c].blob) ELSE registered
    /\ Return(c, calls[c], to_retriable_da_error("tonic status"))
    /\ UNCHANGED <<client, via, bc, config, chain, height>>

\* ------------------------------------------------------------- the network
\* The DA network produces its next block.
NewBlock ==
    /\ height < MaxHeight
    /\ height' = height + 1
    /\ UNCHANGED <<client, via, bc, config, calls, chain, registered, lastDone>>

\* The ids a caller of the running system holds: those of the blobs on the
\* network (returned to it or not), and two it made up.
KnownIds ==
    { hex_encode(bincode_serialize(BlobId(chain[i].commitment, chain[i].namespace, chain[i].height))) :
        i \in DOMAIN chain }

SampleIds == {ASampleId, <<"z", "z">>}

Next ==
    \/ \E c \in Calls, data \in Payloads, blob_ok \in BOOLEAN : DispatchStart(c, data, blob_ok)
    \/ \E c \in Calls, ok \in BOOLEAN : PrepareReturn(c, ok)
    \/ \E c \in Calls : SubmitReturn(c)
    \/ \E c \in Calls, accepted \in BOOLEAN : SubmitFail(c, accepted)
    \/ \E c \in Calls : RegisterReturn(c)
    \/ \E c \in Calls, arrived \in BOOLEAN : RegisterFail(c, arrived)
    \/ \E c \in Calls : CanStart(c) /\ \E blob_id \in KnownIds \cup SampleIds : GetStart(c, blob_id)
    \/ \E c \in Calls, response \in SampleResponses : QueryReturn(c, response)
    \/ \E c \in Calls, arrived \in BOOLEAN : QueryFail(c, arrived)
    \/ NewBlock

Spec == Init /\ [][Next]_vars

\* One get_inclusion_data call, over every id and every response.
NextQuery ==
    \/ \E blob_id \in IdInputs : GetStart(1, blob_id)
    \/ \E response \in Responses : QueryReturn(1, response)
    \/ \E arrived \in BOOLEAN : QueryFail(1, arrived)

SpecQuery == Init /\ [][NextQuery]_vars

\* ------------------------------------------------------------------ claims
Dispatches == { c \in Calls : calls[c].op = "dispatch" }

Gets == { c \in Calls : calls[c].op = "get" }

Done(c) == calls[c].pc = "done"

Failed(c) == Done(c) /\ calls[c].result.kind = "err"

Succeeded(c) == Done(c) /\ calls[c].result.kind = "ok"

\* The positions of the blobs call c put on the network.
OnNetwork(c) == { i \in DOMAIN chain : chain[i].by = c }

LocalFailures == {"namespace hex", "namespace", "blob", "prepare"}

\* C1: in a dispatch_blob call the inclusion-proof service is contacted only
\* after prepare succeeded and the network accepted the submission and gave a
\* height, and the id is returned only after that contact; a call that failed
\* at the namespace, the blob, prepare or submit contacted the service never,
\* and one that failed before submit submitted nothing.
C1_DispatchOrder ==
    \A c \in Dispatches :
        /\ calls[c].nsubmit > 0 => calls[c].nprepare > 0
        /\ calls[c].nrpc > 0 =>
              /\ calls[c].nsubmit > 0
              /\ calls[c].blob.height >= 1
              /\ \E i \in OnNetwork(c) : chain[i].height = calls[c].blob.height
        /\ Succeeded(c) => calls[c].nrpc > 0
        /\ Failed(c) /\ calls[c].result.error \in LocalFailures \cup {"submit"} =>
              calls[c].nrpc = 0
        /\ Failed(c) /\ calls[c].result.error \in LocalFailures =>
              calls[c].nsubmit = 0 /\ OnNetwork(c) = {}

\* One call went through all the steps, another stopped at a failed submit.
C1_Witness ==
    \E c, d \in Dispatches :
        /\ Succeeded(c) /\ calls[c].nrpc = 1 /\ OnNetwork(c) # {}
        /\ Failed(d) /\ calls[d].result.error = "submit" /\ calls[d].nrpc = 0

FailedAtRegistration(c) ==
    /\ c \in Dispatches
    /\ Failed(c)
    /\ calls[c].nrpc > 0

\* C2: a dispatch_blob whose registration failed returns a retriable error
\* while its blob stays on the network, and a retry with the same payload that
\* gets through submit has put a second blob with the same commitment there.
C2_RetryDuplicates ==
    \A c \in Calls :
        FailedAtRegistration(c) =>
            /\ calls[c].result.is_retriable
            /\ OnNetwork(c) # {}
            /\ \A r \in Dispatches :
                  /\ calls[r].prev = c
                  /\ calls[r].data = calls[c].data
                  /\ calls[r].pc \in {"register", "done"}
                  /\ calls[r].nsubmit > 0
                  /\ ~(Failed(r) /\ calls[r].result.error = "submit")
                  => \E i \in OnNetwork(c), j \in OnNetwork(r) :
                        /\ i # j
                        /\ chain[i].commitment = chain[j].commitment
                        /\ chain[i].namespace = chain[j].namespace

\* The retry of a dispatch that failed at registration succeeded: the same
\* content is on the network twice.
C2_Witness ==
    \E c, r \in Dispatches :
        /\ FailedAtRegistration(c)
        /\ calls[r].prev = c
        /\ calls[r].data = calls[c].data
        /\ Succeeded(r)
        /\ OnNetwork(c) # {} /\ OnNetwork(r) # {}

\* C3: a dispatch_blob failure is retriable exactly when it happened in the
\* registration step; every failure before it (namespace, blob, prepare,
\* submit) is not retriable.
C3_RetriableOnlyAtRegistration ==
    \A c \in Dispatches :
        Failed(c) =>
            /\ calls[c].nrpc = 0 => ~calls[c].result.is_retriable
            /\ calls[c].result.is_retriable =>
                  /\ calls[c].nrpc = 1
                  /\ OnNetwork(c) # {}
            /\ calls[c].result.error \in LocalFailures \cup {"submit"} =>
                  ~calls[c].result.is_retriable

\* A failed submit and a failed prepare, both reported as not retriable.
C3_Witness ==
    \E c, d \in Dispatches :
        /\ Failed(c) /\ calls[c].result.error = "submit"
        /\ Failed(d) /\ calls[d].result.error = "prepare"

\* The service answered the query of call c.
Answered(c) ==
    /\ c \in Gets
    /\ Done(c)
    /\ calls[c].response # NoResponse

IsComplete(code) ==
    /\ status_try_from_ok(code)
    /\ status_try_from(code) = "Complete"

IsKnownOther(code) ==
    /\ status_try_from_ok(code)
    /\ status_try_from(code) # "Complete"

\* C4: when the service answers Complete without a proof (no value, or a
\* value that is no proof), get_inclusion_data returns an error that is not
\* retriable: neither None nor Some.
C4_CompleteWithoutProofIsError ==
    \A c \in Calls :
        /\ Answered(c)
        /\ IsComplete(calls[c].response.status)
        /\ calls[c].response.response_value.kind # "proof"
        => /\ calls[c].result.kind = "err"
           /\ ~calls[c].result.is_retriable

\* Complete came with a value that is no proof, and the call failed.
C4_Witness ==
    \E c \in Calls :
        /\ Answered(c)
        /\ IsComplete(calls[c].response.status)
        /\ calls[c].response.response_value.kind = "other"
        /\ Failed(c)

\* C5 as claimed: every answer whose status code is not Complete, the codes
\* the client does not know included, makes get_inclusion_data return Ok(None).
C5_AnyOtherStatusIsNone ==
    \A c \in Calls :
        Answered(c) /\ ~IsComplete(calls[c].response.status) =>
            calls[c].result = OkNone

\* C5 as amended: an answer whose status is a code the client knows, other
\* than Complete, makes get_inclusion_data return Ok(None) whatever value
\* comes with it; an answer whose status code the client does not know makes
\* it return an error.
C5_KnownOtherStatusIsNone ==
    \A c \in Calls :
        Answered(c) =>
            /\ IsKnownOther(calls[c].response.status) => calls[c].result = OkNone
            /\ ~status_try_from_ok(calls[c].response.status) =>
                  calls[c].result.kind = "err"

\* A known code other than Complete came with a proof and gave None ...
C5_Witness ==
    \E c \in Calls :
        /\ Answered(c)
        /\ IsKnownOther(calls[c].response.status)
        /\ calls[c].response.response_value.kind = "proof"
        /\ calls[c].result = OkNone

\* C6: get_inclusion_data returns Some exactly when the service answered
\* Complete with a proof, and the data returned is that proof.
C6_SomeIffCompleteWithProof ==
    \A c \in Gets :
        Done(c) =>
            /\ calls[c].result.some <=>
                  /\ Answered(c)
                  /\ IsComplete(calls[c].response.status)
                  /\ calls[c].response.response_value.kind = "proof"
            /\ calls[c].result.some =>
                  /\ calls[c].result.kind = "ok"
                  /\ calls[c].result.data = calls[c].response.response_value.data

\* Complete came with the proof <<1>>, which was returned.
C6_Witness ==
    \E c \in Gets :
        /\ Answered(c)
        /\ IsComplete(calls[c].response.status)
        /\ calls[c].response.response_value = Proof(<<1>>)
        /\ calls[c].result = InclusionData(<<1>>)

Malformed(str) ==
    IF hex_decode_ok(str) THEN ~bincode_deserialize_ok(hex_decode(str)) ELSE TRUE

\* C7: for an id that is no hex or whose bytes are no BlobId,
\* get_inclusion_data ends at once with an error that is not retriable, and
\* the service has not been called.
C7_MalformedIdFailsBeforeQuery ==
    \A c \in Gets :
        Malformed(calls[c].arg) =>
            /\ Failed(c)
            /\ ~calls[c].result.is_retriable
            /\ calls[c].nrpc = 0
            /\ calls[c].response = NoResponse
            /\ calls[c].blob \notin registered

\* The id "zz" was refused.
C7_Witness ==
    \E c \in Gets :
        /\ calls[c].arg = <<"z", "z">>
        /\ Failed(c)
        /\ calls[c].nrpc = 0

\* The query of call c was sent and failed.
QueryFailed(c) ==
    /\ c \in Gets
    /\ Done(c)
    /\ calls[c].nrpc = 1
    /\ calls[c].response = NoResponse

\* C8: a get_inclusion_data whose query failed returns a retriable error, and
\* any call with the same id that the service does answer returns what that
\* answer says: None for a known status other than Complete, the proof for
\* Complete with a proof, and never the retriable failure.
C8_QueryFailureIsRetriable ==
    \A c \in Calls :
        QueryFailed(c) =>
            /\ Failed(c)
            /\ calls[c].result.is_retriable
            /\ \A g \in Gets :
                  Answered(g) /\ calls[g].arg = calls[c].arg =>
                      /\ ~calls[g].result.is_retriable
                      /\ IsKnownOther(calls[g].response.status) => calls[g].result = OkNone
                      /\ /\ IsComplete(calls[g].response.status)
                         /\ calls[g].response.response_value.kind = "proof"
                         => calls[g].result = InclusionData(calls[g].response.response_value.data)

\* A query failed; the next call, with the same id, was answered with a proof.
C8_Witness ==
    \E c, g \in Gets :
        /\ QueryFailed(c)
        /\ calls[g].prev = c
        /\ calls[g].arg = calls[c].arg
        /\ Answered(g)
        /\ calls[g].result.some

\* Call g is a get_inclusion_data, started when dispatch d was the last call
\* to have returned, on the id d returned for a payload within the limit.
FollowsDispatch(d, g) ==
    /\ d \in Dispatches
    /\ Succeeded(d)
    /\ calls[d].data.len <= blob_size_limit
    /\ g \in Gets
    /\ calls[g].prev = d
    /\ calls[g].arg = calls[d].result.blob_id

\* C9 as claimed: get_inclusion_data right after a successful dispatch_blob,
\* on the id it returned, yields None.
C9_GetAfterDispatchIsNone ==
    \A d, g \in Calls :
        FollowsDispatch(d, g) /\ Done(g) => calls[g].result = OkNone

\* C9 as amended: get_inclusion_data right after a successful dispatch_blob,
\* on the id it returned, decodes the id to the BlobId that dispatch sent to
\* the service and queries the service once; it yields None exactly when the
\* service answers with a known status other than Complete, and otherwise
\* what the answer dictates (an error when the query fails, the status code
\* is unknown or Complete has no proof; Some for Complete with a proof).
C9_GetAfterDispatchFollowsService ==
    \A d, g \in Calls :
        FollowsDispatch(d, g) =>
            /\ ~Malformed(calls[g].arg)
            /\ calls[g].nrpc = 1
            /\ calls[g].blob = calls[d].blob
            /\ Done(g) =>
                  /\ calls[g].result = OkNone <=>
                        Answered(g) /\ IsKnownOther(calls[g].response.status)
                  /\ QueryFailed(g) => calls[g].result.is_retriable
                  /\ calls[g].result.some =>
                        IsComplete(calls[g].response.status)

\* The service answered the query that followed the dispatch with a known
\* status other than Complete, and the call gave None.
C9_Witness ==
    \E d, g \in Calls :
        /\ FollowsDispatch(d, g)
        /\ Answered(g)
        /\ calls[g].result = OkNone

\* Call c, a get_inclusion_data, takes this step.
GetStep(c) ==
    /\ calls'[c] # calls[c]
    /\ calls'[c].op = "get"

\* C10 as claimed: no step of a get_inclusion_data call changes the client's
\* state or the set of ids registered with the service.
C10_GetChangesNothing ==
    [][\A c \in Calls : GetStep(c) => config' = config /\ registered' = registered]_vars

\* C10 as amended: no step of a get_inclusion_data call changes the client's
\* state; decoding the id sends nothing; the query is the get_keccak_inclusion
\* RPC that dispatch_blob registers with, so it adds the queried id, and
\* nothing else, to the ids the service knows, and nothing when the id is
\* known already.  The set changes only by that RPC, from either operation.
C10_GetRegistersOnlyItsId ==
    [][/\ config' = config
       /\ \A c \in Calls :
             GetStep(c) =>
                 /\ calls[c].pc = "idle" => registered' = registered
                 /\ registered \subseteq registered'
                 /\ registered' \subseteq registered \cup {calls[c].blob}
                 /\ calls[c].blob \in registered => registered' = registered
       /\ registered' # registered =>
             \E c \in Calls :
                 /\ calls[c].pc \in {"register", "query"}
                 /\ calls'[c].pc = "done"
                 /\ registered' = registered \cup {calls[c].blob}]_vars

\* The service knows an id that only a get_inclusion_data ever sent to it.
C10_Witness ==
    \E g \in Gets :
        /\ Done(g)
        /\ calls[g].blob \in registered
        /\ \A d \in Dispatches : calls[d].blob # calls[g].blob

\* ------------------------------------------------------ the BlobId codec
\* Heights with one and with several significant bytes.
CodecHeights == {1, 255, 256, 65535, 65536, 16777216, 2147483647}

\* A one-byte namespace id and one of the full ten bytes.
CodecNamespaces == {GoodNamespace, [i \in 1..(2 * NS_ID_V0_SIZE) |-> "f"]}

InitCodec ==
    /\ config \in {CelestiaConfig(ns) : ns \in CodecNamespaces}
    /\ client = Constructed("key-a")
    /\ via = [c \in Calls |-> 1]
    /\ bc = NoBytecodes
    /\ calls = [c \in Calls |-> IdleCall]
    /\ chain = <<>>
    /\ height \in CodecHeights
    /\ registered = {}
    /\ lastDone = 0

\* One dispatch_blob that succeeds, and one get_inclusion_data on its id.
NextCodec ==
    \/ \E data \in Payloads : DispatchStart(1, data, TRUE)
    \/ PrepareReturn(1, TRUE)
    \/ SubmitReturn(1)
    \/ RegisterReturn(1)
    \/ \E blob_id \in KnownIds : GetStart(2, blob_id)
    \/ \E response \in SampleResponses : QueryReturn(2, response)

SpecCodec == InitCodec /\ [][NextCodec]_vars

\* The BlobId of the i-th blob on the network.
ChainBlobId(i) == BlobId(chain[i].commitment, chain[i].namespace, chain[i].height)

\* C11: the id string dispatch_blob makes of a BlobId is decoded by
\* get_inclusion_data to the same commitment, namespace and height.
C11_RoundTrip ==
    \A g \in Gets :
        /\ \A i \in DOMAIN chain :
              calls[g].arg = hex_encode(bincode_serialize(ChainBlobId(i))) =>
                  /\ calls[g].result.error \notin {"hex", "bincode"}
                  /\ calls[g].blob.commitment = chain[i].commitment
                  /\ calls[g].blob.namespace = chain[i].namespace
                  /\ calls[g].blob.height = chain[i].height
        /\ \A d \in Dispatches :
              Succeeded(d) /\ calls[g].arg = calls[d].result.blob_id =>
                  calls[g].blob = calls[d].blob

\* The id of a blob at a height of three significant bytes was decoded.
C11_Witness ==
    \E g \in Gets, d \in Dispatches :
        /\ Succeeded(d)
        /\ calls[g].arg = calls[d].result.blob_id
        /\ calls[g].pc = "done"
        /\ calls[g].blob.height = 65536
        /\ Len(calls[g].blob.namespace) = NS_SIZE

\* C12: the id a successful dispatch_blob returns decodes to the BlobId made
\* of the commitment of the payload, the configured namespace and the height
\* the network gave this call's one submission, and that BlobId is the one
\* the call sent to the inclusion-proof service.
C12_ReturnedIdIsThisBlob ==
    \A d \in Dispatches :
        Succeeded(d) =>
            /\ hex_decode_ok(calls[d].result.blob_id)
            /\ LET bytes == hex_decode(calls[d].result.blob_id)
                   b == bincode_deserialize(bytes)
               IN /\ bincode_deserialize_ok(bytes)
                  /\ b = calls[d].blob
                  /\ b \in registered
                  /\ calls[d].blob.commitment = Commitment(calls[d].data)
                  /\ calls[d].blob.namespace = new_v0(hex_decode(config.namespace))
                  /\ Cardinality(OnNetwork(d)) = 1
                  /\ \A i \in OnNetwork(d) : calls[d].blob.height = chain[i].height

\* A dispatch succeeded at height 2 while another call's blob sits at height 1.
C12_Witness ==
    \E d \in Dispatches :
        /\ Succeeded(d)
        /\ calls[d].blob.height = 2
        /\ \E i \in DOMAIN chain : chain[i].by # d /\ chain[i].height = 1

\* Two dispatch_blob calls with the same payload bytes.
SamePayload(d, e) ==
    /\ d \in Dispatches
    /\ e \in Dispatches
    /\ d # e
    /\ calls[d].data = calls[e].data

Attempts(c) == calls[c].nprepare + calls[c].nsubmit + calls[c].nrpc

\* C19: the client never retries: a dispatch_blob call issues at most one
\* prepare, one submission and one registration and puts at most one blob on
\* the network, a get_inclusion_data call issues at most one query and
\* nothing else, and a call that failed returned at its first failure.
C19_NoInternalRetry ==
    \A c \in Calls :
        /\ calls[c].nprepare <= 1
        /\ calls[c].nsubmit <= 1
        /\ calls[c].nrpc <= 1
        /\ Cardinality(OnNetwork(c)) <= 1
        /\ c \in Gets => calls[c].nprepare = 0 /\ calls[c].nsubmit = 0
        /\ calls[c].nsubmit <= calls[c].nprepare
        /\ c \in Dispatches => calls[c].nrpc <= calls[c].nsubmit
        /\ Failed(c) /\ c \in Dispatches /\ calls[c].result.is_retriable =>
              Attempts(c) = 3
        /\ Failed(c) /\ c \in Gets /\ calls[c].result.is_retriable =>
              Attempts(c) = 1

\* A dispatch whose registration failed and a get whose query failed: each
\* returned after its one attempt.
C19_Witness ==
    \E d \in Dispatches, g \in Gets :
        /\ FailedAtRegistration(d)
        /\ calls[d].nrpc = 1
        /\ QueryFailed(g)
        /\ calls[g].nrpc = 1

\* ------------------------------------------------- construction and handles
\* The handles one client is cloned into.
MaxHandles == 2

\* `new` has been called with this key and has not connected yet.
NotConstructed(private_key) ==
    [pc |-> "start", private_key |-> private_key, opened |-> {}, handles |-> <<>>,
     log |-> {}]

\* lines 36-43: the network channel is connected (`?` on failure), then the
\* network client is built from it and the key (`expect` on failure).
NewConnectNetwork(connected, built) ==
    /\ client.pc = "start"
    /\ client' =
         IF ~connected THEN [client EXCEPT !.pc = "error"]
         ELSE IF ~built THEN [client EXCEPT !.pc = "panic", !.opened = {NetworkChannel}]
         ELSE [client EXCEPT !.pc = "integration", !.opened = {NetworkChannel}]
    /\ UNCHANGED <<via, bc, config, calls, chain, height, registered, lastDone>>

\* lines 45-55: the integration channel is connected (`?` on failure) and
\* Ok(Self) is returned.
NewConnectIntegration(connected) ==
    /\ client.pc = "integration"
    /\ client' =
         IF ~connected THEN [client EXCEPT !.pc = "error"]
         ELSE [client EXCEPT !.pc = "ready",
                             !.opened = @ \cup {IntegrationChannel},
                             !.handles = <<CelestiaClient(config, client.private_key)>>]
    /\ UNCHANGED <<via, bc, config, calls, chain, height, registered, lastDone>>

\* A clone that connects again instead of sharing the Arc.
clone_boxed_reconnect(h) ==
    /\ client.pc = "ready"
    /\ h \in DOMAIN client.handles
    /\ Len(client.handles) < MaxHandles
    /\ LET again == [channel |-> "integration_grpc_channel_2"]
       IN client' = [client EXCEPT
                        !.opened = @ \cup {again},
                        !.handles = Append(@, [client.handles[h] EXCEPT
                                                  !.integration_client = again])]
    /\ UNCHANGED <<via, bc, config, calls, chain, height, registered, lastDone>>

\* lines 27, 134-136: Box::new(self.clone()), the derived Clone: the config
\* is copied and the two Arcs are shared.
clone_boxed(h) ==
    /\ client.pc = "ready"
    /\ h \in DOMAIN client.handles
    /\ Len(client.handles) < MaxHandles
    /\ client' = [client EXCEPT !.handles = Append(@, client.handles[h])]
    /\ UNCHANGED <<via, bc, config, calls, chain, height, registered, lastDone>>

\* The caller picks the handle its next call goes through.
SelectHandle(c, h) ==
    /\ client.pc = "ready"
    /\ calls[c].pc = "idle"
    /\ h \in DOMAIN client.handles
    /\ via[c] # h
    /\ via' = [via EXCEPT ![c] = h]
    /\ UNCHANGED <<client, bc, config, calls, chain, height, registered, lastDone>>

\* ------------------------------------------------------------------ balance
\* Balances the network may report.
Balances == {0, 1000000}

\* Ok(balance)
OkBalance(balance) ==
    [kind |-> "ok", blob_id |-> <<>>, some |-> FALSE, data |-> <<balance>>,
     error |-> "", is_retriable |-> FALSE]

\* line 143: celestia_client.balance() is called.
BalanceStart(c) ==
    /\ CanStart(c)
    /\ calls' = [calls EXCEPT ![c] = [Begin(c, "balance") EXCEPT !.pc = "balance"]]
    /\ UNCHANGED <<client, via, bc, config, chain, height, registered, lastDone>>

\* A balance query whose failure is classified as transient.
BalanceReturn_retriable(c, ok, balance) ==
    /\ calls[c].pc = "balance"
    /\ IF ok
       THEN Return(c, calls[c], OkBalance(balance))
       ELSE Return(c, calls[c], to_retriable_da_error("balance"))
    /\ UNCHANGED <<client, via, bc, config, chain, height, registered>>

\* lines 144-146: the awaited answer, or map_err(to_non_retriable_da_error).
BalanceReturn(c, ok, balance) ==
    /\ calls[c].pc = "balance"
    /\ IF ok
       THEN Return(c, calls[c], OkBalance(balance))
       ELSE Return(c, calls[c], to_non_retriable_da_error("balance"))
    /\ UNCHANGED <<client, via, bc, config, chain, height, registered>>

\* -------------------------------------------------------------------- Debug
\* One field of a debug_struct: its name and its value as text (a string is
\* one piece of text, the namespace is the text of its hex digits).
Field(name, text) == [name |-> name, text |-> text]

\* A rendering that derives Debug for the whole struct.
fmt_derived(self) ==
    [name |-> "CelestiaClient",
     fields |-> <<Field("config.api_node_url", <<self.config.api_node_url>>),
                  Field("config.namespace", self.config.namespace),
                  Field("celestia_client.private_key",
                        <<self.celestia_client.private_key>>)>>]

\* lines 151-156: debug_struct("CelestiaClient") with two fields.
fmt(self) ==
    [name |-> "CelestiaClient",
     fields |-> <<Field("config.api_node_url", <<self.config.api_node_url>>),
                  Field("config.namespace", self.config.namespace)>>]

\* The handle is rendered with {:?} and the text is kept.
DebugRender(h) ==
    /\ client.pc = "ready"
    /\ h \in DOMAIN client.handles
    /\ fmt(client.handles[h]) \notin client.log
    /\ client' = [client EXCEPT !.log = @ \cup {fmt(client.handles[h])}]
    /\ UNCHANGED <<via, bc, config, calls, chain, height, registered, lastDone>>

\* ------------------------------------------- the client from `new` onwards
InitClient ==
    /\ config \in {CelestiaConfig(ns) : ns \in ConfigNamespaces}
    /\ client \in {NotConstructed(k) : k \in PrivateKeys}
    /\ via = [c \in Calls |-> 1]
    /\ bc = NoBytecodes
    /\ calls = [c \in Calls |-> IdleCall]
    /\ chain = <<>>
    /\ height = 1
    /\ registered = {}
    /\ lastDone = 0

\* Construction, clones, and on them a balance query, one dispatch_blob that
\* is not refused locally and one get_inclusion_data on a known id.
NextClient ==
    \/ \E connected, built \in BOOLEAN : NewConnectNetwork(connected, built)
    \/ \E connected \in BOOLEAN : NewConnectIntegration(connected)
    \/ \E h \in 1..MaxHandles : clone_boxed(h)
    \/ \E c \in Calls, h \in 1..MaxHandles : SelectHandle(c, h)
    \/ \E h \in 1..MaxHandles : DebugRender(h)
    \/ \E c \in Calls : BalanceStart(c)
    \/ \E c \in Calls, ok \in BOOLEAN, balance \in Balances : BalanceReturn(c, ok, balance)
    \/ \E data \in Payloads : DispatchStart(1, data, TRUE)
    \/ PrepareReturn(1, TRUE)
    \/ SubmitReturn(1)
    \/ RegisterReturn(1)
    \/ \E blob_id \in KnownIds : GetStart(2, blob_id)
    \/ \E response \in SampleResponses : QueryReturn(2, response)

SpecClient == InitClient /\ [][NextClient]_vars

\* C14: construction is all-or-nothing and eager: a client exists only once
\* both channels are established; when a channel cannot be established or the
\* network client cannot be built, `new` returns an error, the process is not
\* aborted, no client exists, and no call runs on a client missing a channel.
C14_ConstructionAllOrNothing ==
    /\ client.pc # "panic"
    /\ client.handles # <<>> <=> client.pc = "ready"
    /\ client.pc = "ready" => client.opened = {NetworkChannel, IntegrationChannel}
    /\ \A c \in Calls :
          calls[c].pc # "idle" =>
              /\ client.pc = "ready"
              /\ via[c] \in DOMAIN client.handles
              /\ [channel |-> client.handles[via[c]].celestia_client.channel] \in client.opened
              /\ client.handles[via[c]].integration_client \in client.opened

\* The handle call c was made on.
HandleOf(c) == client.handles[via[c]]

\* C15: cloning opens no connection: every handle has the two channels and
\* the configuration of the original, and a get_inclusion_data through one
\* handle on the id a dispatch_blob through another handle returned reaches
\* the service that dispatch registered with, and asks for the same blob.
C15_ClonesShareChannels ==
    /\ client.pc = "ready" => client.opened = {NetworkChannel, IntegrationChannel}
    /\ \A h \in DOMAIN client.handles :
          /\ client.handles[h] = client.handles[1]
          /\ client.handles[h].config = config
          /\ client.handles[h].integration_client \in client.opened
          /\ [channel |-> client.handles[h].celestia_client.channel] \in client.opened
    /\ \A d, g \in Calls :
          FollowsDispatch(d, g) /\ via[d] # via[g] =>
              /\ HandleOf(g).integration_client = HandleOf(d).integration_client
              /\ calls[g].pc # "idle" => calls[g].blob = calls[d].blob
              /\ Done(g) => calls[g].result = interpret_response(calls[g].response)

\* After a clone, a dispatch through one handle and an answered query on its
\* id through the other.
C15_Witness ==
    /\ Len(client.handles) > 1
    /\ \E d, g \in Calls :
          /\ FollowsDispatch(d, g)
          /\ via[d] # via[g]
          /\ Done(g)
          /\ calls[g].result.some

Balance == { c \in Calls : calls[c].op = "balance" }

\* A step of balance call c: it starts or it returns.
BalanceStep(c) ==
    /\ calls'[c].op = "balance"
    /\ calls'[c] # calls[c]

\* C16: every failure of balance() is returned with is_retriable = false, and
\* a balance() call makes no submission and no inclusion-service call: its
\* steps leave the network's blobs and the service's registrations as they are.
C16_BalanceFailsNonRetriable ==
    [][\A c \in Calls :
          BalanceStep(c) =>
              /\ chain' = chain
              /\ registered' = registered
              /\ calls'[c].nprepare = 0 /\ calls'[c].nsubmit = 0 /\ calls'[c].nrpc = 0
              /\ calls'[c].result.kind = "err" => ~calls'[c].result.is_retriable]_vars

\* A balance() call has failed, after a blob was submitted and registered.
C16_Witness ==
    \E c \in Balance, d \in Dispatches :
        /\ Failed(c)
        /\ Succeeded(d)
        /\ calls[c].prev = d

\* What the spec allows in diagnostic text: the two endpoints and the namespace.
Renderable ==
    { Field("config.api_node_url", <<config.api_node_url>>),
      Field("config.integration_service_url", <<config.integration_service_url>>),
      Field("config.namespace", config.namespace) }

\* C18: the Debug rendering of a client does not depend on the signing key:
\* a client with the same configuration and any other key renders to the same
\* text, and the text holds nothing but endpoint URLs and the namespace.
C18_DebugHidesKey ==
    \A text \in client.log :
        /\ \A k \in PrivateKeys : text = fmt(CelestiaClient(config, k))
        /\ \A i \in DOMAIN text.fields :
              /\ text.fields[i] \in Renderable
              /\ text.fields[i].text \notin { <<k>> : k \in PrivateKeys }

\* A client built with the second key has been rendered.
C18_Witness ==
    /\ client.pc = "ready"
    /\ client.private_key = "key-b"
    /\ client.handles[1].celestia_client.private_key = "key-b"
    /\ fmt(client.handles[1]) \in client.log

\* ------------------------------------------------------------- cancellation
\* The blob of call c as the network holds it at the current height.
Included(c) ==
    [commitment |-> calls[c].blob.commitment, namespace |-> calls[c].blob.namespace,
     height |-> height, by |-> c]

\* A cancellation that leaves the client unusable (a guard held over an await).
Cancel_poisons(c, accepted, arrived) ==
    /\ calls[c].pc \in {"prepare", "submit", "register"}
    /\ calls[c].pc = "submit" /\ accepted => CanInclude(c)
    /\ chain' = IF calls[c].pc = "submit" /\ accepted THEN Append(chain, Included(c)) ELSE chain
    /\ registered' = IF calls[c].pc = "register" /\ arrived
                     THEN get_keccak_inclusion(calls[c].blob)
                     ELSE registered
    /\ calls' = [calls EXCEPT ![c].pc = "cancelled", ![c].floor = 0]
    /\ client' = [client EXCEPT !.pc = "error"]
    /\ UNCHANGED <<via, bc, config, height, lastDone>>

\* lines 79-98: the caller drops the future of dispatch_blob while it is
\* suspended on prepare (82), submit (89) or get_keccak_inclusion (97). The
\* call returns nothing; what the remote side was sent before may have been
\* accepted (`accepted`: the submission, `arrived`: the registration).
Cancel(c, accepted, arrived) ==
    /\ calls[c].pc \in {"prepare", "submit", "register"}
    /\ calls[c].pc = "submit" /\ accepted => CanInclude(c)
    /\ chain' = IF calls[c].pc = "submit" /\ accepted THEN Append(chain, Included(c)) ELSE chain
    /\ registered' = IF calls[c].pc = "register" /\ arrived
                     THEN get_keccak_inclusion(calls[c].blob)
                     ELSE registered
    /\ calls' = [calls EXCEPT ![c].pc = "cancelled", ![c].floor = 0]
    /\ UNCHANGED <<client, via, bc, config, height, lastDone>>

\* dispatch_blob calls that are not refused locally, any of which the caller
\* may cancel.
NextCancel ==
    \/ \E c \in Calls, data \in Payloads : DispatchStart(c, data, TRUE)
    \/ \E c \in Calls : PrepareReturn(c, TRUE)
    \/ \E c \in Calls : SubmitReturn(c)
    \/ \E c \in Calls : RegisterReturn(c)
    \/ \E c \in Calls, accepted, arrived \in BOOLEAN : Cancel(c, accepted, arrived)
    \/ NewBlock

SpecCancel == Init /\ [][NextCancel]_vars

Cancelled(c) == calls[c].pc = "cancelled"

\* The step in which the caller cancels call c.
CancelStep(c) == ~Cancelled(c) /\ Cancelled(c)'

\* C17: cancelling a dispatch_blob suspended on a network call returns no id
\* and leaves only what the remote side had accepted: during prepare, or
\* before the network accepted the submission, no blob and no registration;
\* once the network accepted the submission, that one blob on the network;
\* during registration, the blob and at most its own registration.  The
\* configuration and the channels are unchanged, as is every other call.
C17_CancelKeepsOnlyAccepted ==
    [][\A c \in Calls :
          CancelStep(c) =>
              /\ calls'[c].result = Pending
              /\ client' = client /\ config' = config /\ via' = via
              /\ \A b \in Calls \ {c} : calls'[b] = calls[b]
              /\ calls[c].pc = "prepare" =>
                    /\ chain' = chain /\ registered' = registered
                    /\ OnNetwork(c) = {}
              /\ calls[c].pc = "submit" =>
                    /\ registered' = registered
                    /\ OnNetwork(c) = {}
                    /\ chain' \in {chain, Append(chain, Included(c))}
              /\ calls[c].pc = "register" =>
                    /\ chain' = chain
                    /\ Cardinality(OnNetwork(c)) = 1
                    /\ registered' \in {registered, registered \cup {calls[c].blob}}]_vars

\* A dispatch was cancelled during registration, its blob is on the network
\* and unregistered, and a dispatch made afterwards on the same client
\* succeeded.
C17_Witness ==
    \E c, d \in Calls :
        /\ Cancelled(c)
        /\ calls[c].nrpc = 1
        /\ OnNetwork(c) # {}
        /\ calls[c].blob \notin registered
        /\ c < d
        /\ Succeeded(d)

\* -------------------------------------------------------- compress_bytecodes
\* The length of the input slice.
MaxBytecodes == 4

\* Bytecodes, as their 32-byte words (a word by its value): three of one
\* word and one of three words that starts with the second.
Bytecodes == {<<1>>, <<2>>, <<2, 0, 1>>, <<3>>}

\* Ord for Vec<u8>: lexicographic, a proper prefix first.
RECURSIVE LexLess(_, _)
LexLess(a, b) ==
    IF b = <<>> THEN FALSE
    ELSE IF a = <<>> THEN TRUE
    ELSE IF a[1] # b[1] THEN a[1] < b[1]
    ELSE LexLess(Tail(a), Tail(b))

\* hash_bytecode: a digest of the words.
RECURSIVE hash_words(_, _)
hash_words(h, code) ==
    IF code = <<>> THEN h
    ELSE hash_words((h * 31 + code[1] + 1) % 65536, Tail(code))

hash_bytecode(code) == hash_words(0, code)

\* .iter().enumerate(): (idx, dep), idx from 0
enumerate(bytecodes) ==
    [i \in DOMAIN bytecodes |-> [idx |-> i - 1, dep |-> bytecodes[i]]]

\* The key order of the two sorts.
KeyLess(x, y, by_idx) ==
    IF by_idx THEN x.idx < y.idx ELSE LexLess(x.dep, y.dep)

\* x goes after every element whose key is not greater: the sort is stable.
RECURSIVE insert_sorted(_, _, _)
insert_sorted(x, s, by_idx) ==
    IF s = <<>> THEN <<x>>
    ELSE IF KeyLess(x, Head(s), by_idx) THEN <<x>> \o s
    ELSE <<Head(s)>> \o insert_sorted(x, Tail(s), by_idx)

\* .sorted_by_key(..): a stable sort of the collected items.
RECURSIVE sort_prefix(_, _, _)
sort_prefix(s, n, by_idx) ==
    IF n = 0 THEN <<>>
    ELSE insert_sorted(s[n], sort_prefix(s, n - 1, by_idx), by_idx)

sorted_by_key(s, by_idx) == sort_prefix(s, Len(s), by_idx)

\* A dedup that keeps the last item of a run of equal bytecodes.
RECURSIVE dedup_by_keep_last(_)
dedup_by_keep_last(s) ==
    IF Len(s) < 2 THEN s
    ELSE IF s[1].dep = s[2].dep THEN dedup_by_keep_last(Tail(s))
    ELSE <<s[1]>> \o dedup_by_keep_last(Tail(s))

\* .dedup_by(|x, y| x.1 == y.1): of a run of equal bytecodes the first stays.
RECURSIVE dedup_by(_)
dedup_by(s) ==
    IF Len(s) < 2 THEN s
    ELSE IF s[1].dep = s[2].dep THEN dedup_by(<<s[1]>> \o Tail(Tail(s)))
    ELSE <<s[1]>> \o dedup_by(Tail(s))

\* .filter(|(_idx, dep)| !is_bytecode_known(hash_bytecode(dep)))
RECURSIVE filter_unknown(_, _)
filter_unknown(s, known) ==
    IF s = <<>> THEN <<>>
    ELSE IF hash_bytecode(Head(s).dep) \in known THEN filter_unknown(Tail(s), known)
    ELSE <<Head(s)>> \o filter_unknown(Tail(s), known)

\* CompressedBytecodeInfo: the original and what bytecode::compress made of it.
CompressedBytecodeInfo(dep) == [original |-> dep, compressed |-> <<Len(dep)>> \o dep]

\* .filter_map(|(_idx, dep)| bytecode::compress(dep.clone()).ok())
RECURSIVE filter_map_compress(_, _)
filter_map_compress(s, fails) ==
    IF s = <<>> THEN <<>>
    ELSE IF Head(s).dep \in fails THEN filter_map_compress(Tail(s), fails)
    ELSE <<CompressedBytecodeInfo(Head(s).dep)>> \o filter_map_compress(Tail(s), fails)

\* The arguments is_bytecode_known was called with, in the order of the calls.
calls_of_filter(s) == [i \in DOMAIN s |-> hash_bytecode(s[i].dep)]

\* lines 30-43: the whole pipeline, run on the input of this state.
compress_bytecodes ==
    /\ bc.pc = "input"
    /\ LET deduped == dedup_by(sorted_by_key(enumerate(bc.bytecodes), FALSE))
           unknown == filter_unknown(deduped, bc.known)
       IN bc' = [bc EXCEPT !.pc = "done",
                           !.asked = calls_of_filter(deduped),
                           !.out = filter_map_compress(sorted_by_key(unknown, TRUE), bc.fails)]
    /\ UNCHANGED <<client, via, config, calls, chain, height, registered, lastDone>>

\* Every input slice up to MaxBytecodes, every answer of is_bytecode_known
\* and every set of bytecodes bytecode::compress fails on.
BytecodeInputs ==
    UNION { [1..n -> Bytecodes] : n \in 0..MaxBytecodes }

InitBytecode ==
    /\ config = CelestiaConfig(GoodNamespace)
    /\ client = Constructed("key-a")
    /\ via = [c \in Calls |-> 1]
    /\ bc \in { [pc |-> "input", bytecodes |-> bs, known |-> { hash_bytecode(b) : b \in K },
                 fails |-> F, asked |-> <<>>, out |-> <<>>] :
                 bs \in BytecodeInputs, K \in SUBSET Bytecodes, F \in SUBSET Bytecodes }
    /\ calls = [c \in Calls |-> IdleCall]
    /\ chain = <<>>
    /\ height = 1
    /\ registered = {}
    /\ lastDone = 0

NextBytecode == compress_bytecodes

SpecBytecode == InitBytecode /\ [][NextBytecode]_vars

\* The distinct bytecodes of the input slice.
Distinct == { bc.bytecodes[i] : i \in DOMAIN bc.bytecodes }

\* Where a bytecode first occurs in the input slice.
FirstOccurrence(dep) ==
    CHOOSE i \in DOMAIN bc.bytecodes :
        /\ bc.bytecodes[i] = dep
        /\ \A j \in DOMAIN bc.bytecodes : bc.bytecodes[j] = dep => i <= j

\* C20: compress_bytecodes returns at most one entry per distinct bytecode of
\* the input, only for bytecodes is_bytecode_known answered false for, in the
\* order of their first occurrence in the input; is_bytecode_known is called
\* exactly once per distinct bytecode; and a bytecode whose compression fails
\* is left out while every other unknown bytecode keeps its entry.
C20_CompressBytecodes ==
    bc.pc = "done" =>
        /\ \A i, j \in DOMAIN bc.out :
              i < j =>
                  /\ bc.out[i].original # bc.out[j].original
                  /\ FirstOccurrence(bc.out[i].original) < FirstOccurrence(bc.out[j].original)
        /\ { bc.out[i].original : i \in DOMAIN bc.out } =
              { dep \in Distinct : hash_bytecode(dep) \notin bc.known /\ dep \notin bc.fails }
        /\ \A i \in DOMAIN bc.out : bc.out[i] = CompressedBytecodeInfo(bc.out[i].original)
        /\ Len(bc.asked) = Cardinality(Distinct)
        /\ \A dep \in Distinct :
              Cardinality({ i \in DOMAIN bc.asked : bc.asked[i] = hash_bytecode(dep) }) = 1

\* An input in which a bytecode occurs twice, around one that is known and
\* before one that is unknown and fails to compress: the one entry that came
\* out is that of the repeated bytecode.
C20_Witness ==
    /\ bc.pc = "done"
    /\ Len(bc.bytecodes) > Cardinality(Distinct)
    /\ Len(bc.out) = 1
    /\ Cardinality({ i \in DOMAIN bc.bytecodes : bc.bytecodes[i] = bc.out[1].original }) = 2
    /\ \E dep \in Distinct : hash_bytecode(dep) \in bc.known /\ dep \notin bc.fails
    /\ \E dep \in Distinct : hash_bytecode(dep) \notin bc.known /\ dep \in bc.fails

====
